---------------------------- MODULE Spec2Model ----------------------------
(***************************************************************************)
(* Model of package dochtml (internal/etl/dochtml/dochtml.go): Render, the *)
(* example index built by collectExamples, exampleID, and the structure of *)
(* the htmlPackage template.                                               *)
(*                                                                         *)
(* Go strings are sequences of bytes, written here as sequences of ASCII   *)
(* codes, so that concatenation is \o and the order of strings is the      *)
(* byte-wise lexicographic order Go's < computes.                          *)
(***************************************************************************)
EXTENDS Integers, Sequences, FiniteSets, TLC

VARIABLES
    idArgs,     \* exampleID harness: the pair <<id, suffix>> passed in
    idOut,      \* exampleID harness: <<returned>> once called, <<>> before
    exPkg,      \* collectExamples harness: the *doc.Package passed in
    exOut,      \* collectExamples harness: the returned *examples
    exPc,       \* collectExamples harness: "call" before, "returned" after
    pkgs,       \* the doc.Package objects: pkgs[c] is the one the caller of call c owns
    given,      \* given[c]: the package and the options as the caller passed them
    templates,  \* the template objects' hook bindings: templates[0] is htmlPackage
    opt,        \* opt[c]: the call's RenderOptions (passed by value)
    p,          \* p[c]: the call's pointer p into pkgs
    tmpl,       \* tmpl[c]: the template the call binds and executes (-1: none yet)
    examples,   \* examples[c]: the Examples field of the data passed to Execute
    walk,       \* walk[c]: the nodes the template execution goes through
    pos,        \* pos[c]: the next node of walk[c]
    buf,        \* buf[c]: the limitBuffer: what B holds, B's length in bytes, Remain
    err,        \* err[c]: what Execute returned, "nil" or an error
    ret,        \* ret[c]: what Render returned
    pc          \* pc[c]: where call c is

harnessVars == <<idArgs, idOut, exPkg, exOut, exPc>>
renderVars == <<pkgs, given, templates, opt, p, tmpl, examples, walk, pos, buf, err, ret, pc>>
vars == <<harnessVars, renderVars>>

---------------------------------------------------------------------------
(* String literals of the source.                                          *)

strEmpty == <<>>
\* "example-"
strExampleDash == <<101, 120, 97, 109, 112, 108, 101, 45>>
\* "example-package"
strExamplePackage == <<101, 120, 97, 109, 112, 108, 101, 45, 112, 97, 99, 107, 97, 103, 101>>
\* "example-package-"
strExamplePackageDash == <<101, 120, 97, 109, 112, 108, 101, 45, 112, 97, 99, 107, 97, 103, 101, 45>>
\* "-"
strDash == <<45>>
\* "."
strDot == <<46>>
\* "main"
strMain == <<109, 97, 105, 110>>
\* "package" (a Go keyword, so never the name of a declaration in parsed
\* source, but a string like any other for a hand-built doc.Package)
strPackage == <<112, 97, 99, 107, 97, 103, 101>>

\* Names and suffixes used as inputs.
nameN == <<78>>
nameZ == <<90>>
nameT == <<84>>
nameM == <<77>>
nameNa == <<78, 97>>
nameNDashA == <<78, 45, 97>>
nameNew == <<78, 101, 119>>
nameRing == <<82, 105, 110, 103>>
nameDo == <<68, 111>>
nameLib == <<112>>
sufA == <<97>>
sufB == <<98>>

\* The value standing for "the call panicked".
Panic == <<0>>

---------------------------------------------------------------------------
(* Go's string comparison a < b: byte-wise lexicographic.                  *)

RECURSIVE StrLess(_, _)
StrLess(a, b) ==
    IF b = <<>> THEN FALSE
    ELSE IF a = <<>> THEN TRUE
    ELSE IF Head(a) # Head(b) THEN Head(a) < Head(b)
    ELSE StrLess(Tail(a), Tail(b))

---------------------------------------------------------------------------
(* exampleID                                                               *)

\* Faulty variant: the both-empty case falls into the package-suffix case.
exampleID_NoPackageCase(id, suffix) ==
    CASE id = strEmpty -> strExamplePackageDash \o suffix
      [] id # strEmpty /\ suffix = strEmpty -> strExampleDash \o id
      [] id # strEmpty /\ suffix # strEmpty -> strExampleDash \o id \o strDash \o suffix
      [] OTHER -> Panic

\* Faulty variant: the separator between id and suffix is left out.
exampleID_NoSeparator(id, suffix) ==
    CASE id = strEmpty /\ suffix = strEmpty -> strExamplePackage
      [] id = strEmpty /\ suffix # strEmpty -> strExamplePackageDash \o suffix
      [] id # strEmpty /\ suffix = strEmpty -> strExampleDash \o id
      [] id # strEmpty /\ suffix # strEmpty -> strExampleDash \o id \o suffix
      [] OTHER -> Panic

exampleID(id, suffix) ==
    CASE id = strEmpty /\ suffix = strEmpty -> strExamplePackage
      [] id = strEmpty /\ suffix # strEmpty -> strExamplePackageDash \o suffix
      [] id # strEmpty /\ suffix = strEmpty -> strExampleDash \o id
      [] id # strEmpty /\ suffix # strEmpty -> strExampleDash \o id \o strDash \o suffix
      [] OTHER -> Panic

---------------------------------------------------------------------------
(* collectExamples.  A *doc.Example is identified by where it sits in the  *)
(* package: <<1, i>> is p.Examples[i], <<2, f, i>> is p.Funcs[f].Examples[i],*)
(* <<3, t, 1, 0, i>> is p.Types[t].Examples[i], <<3, t, 2, f, i>> is       *)
(* p.Types[t].Funcs[f].Examples[i], <<3, t, 3, m, i>> is                   *)
(* p.Types[t].Methods[m].Examples[i].                                      *)

EmptyMap == [k \in {} |-> <<>>]

\* &example{Example: ex, ID: exampleID(id, ex.Suffix), ParentID: id, Suffix: ex.Suffix}
newExample(ptr, id, suffix) ==
    [Example |-> ptr, ID |-> exampleID(id, suffix), ParentID |-> id, Suffix |-> suffix]

\* Faulty variant: the entry goes into List only.
appendExample_NoMap(xs, ex) ==
    [List |-> Append(xs.List, ex), Map |-> xs.Map]

\* exs.List = append(exs.List, ex); exs.Map[id] = append(exs.Map[id], ex)
appendExample(xs, ex) ==
    [List |-> Append(xs.List, ex),
     Map  |-> IF ex.ParentID \in DOMAIN xs.Map
              THEN [xs.Map EXCEPT ![ex.ParentID] = Append(@, ex)]
              ELSE (ex.ParentID :> <<ex>>) @@ xs.Map]

\* for _, ex := range <holder>.Examples { ... } with the holder's id
RECURSIVE rangeExamples(_, _, _, _, _)
rangeExamples(xs, es, id, path, i) ==
    IF i > Len(es) THEN xs
    ELSE rangeExamples(appendExample(xs, newExample(path \o <<i>>, id, es[i].Suffix)),
                       es, id, path, i + 1)

\* for _, f := range p.Funcs { for _, ex := range f.Examples { id := f.Name ... } }
RECURSIVE rangeFuncs(_, _, _, _)
rangeFuncs(xs, funcs, path, f) ==
    IF f > Len(funcs) THEN xs
    ELSE rangeFuncs(rangeExamples(xs, funcs[f].Examples, funcs[f].Name, path \o <<f>>, 1),
                    funcs, path, f + 1)

\* Faulty variant: a method's id is the method's name alone.
methodID_NoType(tname, mname) == mname

\* id := t.Name + "." + m.Name
methodID(tname, mname) == tname \o strDot \o mname

\* for _, m := range t.Methods { for _, ex := range m.Examples { ... } }
RECURSIVE rangeMethods(_, _, _, _, _)
rangeMethods(xs, tname, methods, path, m) ==
    IF m > Len(methods) THEN xs
    ELSE rangeMethods(rangeExamples(xs, methods[m].Examples,
                                    methodID(tname, methods[m].Name), path \o <<m>>, 1),
                      tname, methods, path, m + 1)

\* for _, t := range p.Types { t.Examples; t.Funcs; t.Methods }
RECURSIVE rangeTypes(_, _, _)
rangeTypes(xs, types, t) ==
    IF t > Len(types) THEN xs
    ELSE LET own     == rangeExamples(xs, types[t].Examples, types[t].Name, <<3, t, 1, 0>>, 1)
             withFns == rangeFuncs(own, types[t].Funcs, <<3, t, 2>>, 1)
             withMs  == rangeMethods(withFns, types[t].Name, types[t].Methods, <<3, t, 3>>, 1)
         IN  rangeTypes(withMs, types, t + 1)

\* func(i, j int) bool { return exs.List[i].ParentID < exs.List[j].ParentID }
less(list, i, j) == StrLess(list[i].ParentID, list[j].ParentID)

swap(list, i, j) == [list EXCEPT ![i] = list[j], ![j] = list[i]]

\* sort.SliceStable on fewer than 20 elements is one insertion sort:
\* for i := a+1; i < b; i++ { for j := i; j > a && less(j, j-1); j-- { swap(j, j-1) } }
RECURSIVE insertionInner(_, _)
insertionInner(list, j) ==
    IF j > 1 /\ less(list, j, j - 1)
    THEN insertionInner(swap(list, j, j - 1), j - 1)
    ELSE list

RECURSIVE insertionOuter(_, _)
insertionOuter(list, i) ==
    IF i > Len(list) THEN list
    ELSE insertionOuter(insertionInner(list, i), i + 1)

\* Faulty variant: an unstable sort, which moves an element past its equals too.
RECURSIVE unstableInner(_, _)
unstableInner(list, j) ==
    IF j > 1 /\ ~less(list, j - 1, j)
    THEN unstableInner(swap(list, j, j - 1), j - 1)
    ELSE list

RECURSIVE unstableOuter(_, _)
unstableOuter(list, i) ==
    IF i > Len(list) THEN list
    ELSE unstableOuter(unstableInner(list, i), i + 1)

SliceStable_Unstable(list) == unstableOuter(list, 2)

SliceStable(list) == insertionOuter(list, 2)

collectExamples(pkg) ==
    LET e0 == [List |-> <<>>, Map |-> EmptyMap]
        e1 == rangeExamples(e0, pkg.Examples, strEmpty, <<1>>, 1)
        e2 == rangeFuncs(e1, pkg.Funcs, <<2>>, 1)
        e3 == rangeTypes(e2, pkg.Types, 1)
    IN  [List |-> SliceStable(e3.List), Map |-> e3.Map]

---------------------------------------------------------------------------
(* The htmlPackage template.  Its execution goes through a sequence of     *)
(* nodes, each written to the limitBuffer on its own: [k, v] is            *)
(*   "href"             a link to the anchor v,                            *)
(*   "id"               an element that carries the anchor v,              *)
(*   "label"            the text v of an entry of the examples list,       *)
(*   "render_synopsis", "render_doc", "render_decl", "render_code",        *)
(*   "source_link"      a call of that hook for the declaration, prose or  *)
(*                      example v.                                         *)
(* Text that carries no anchor belongs to the node next to it.  The Doc    *)
(* and Output of an example are not modelled.                              *)

\* "pkg-overview"
strPkgOverview == <<112, 107, 103, 45, 111, 118, 101, 114, 118, 105, 101, 119>>
\* "pkg-index"
strPkgIndex == <<112, 107, 103, 45, 105, 110, 100, 101, 120>>
\* "pkg-examples"
strPkgExamples == <<112, 107, 103, 45, 101, 120, 97, 109, 112, 108, 101, 115>>
\* "pkg-constants"
strPkgConstants == <<112, 107, 103, 45, 99, 111, 110, 115, 116, 97, 110, 116, 115>>
\* "pkg-variables"
strPkgVariables == <<112, 107, 103, 45, 118, 97, 114, 105, 97, 98, 108, 101, 115>>
\* "pkg-note-"
strPkgNoteDash == <<112, 107, 103, 45, 110, 111, 116, 101, 45>>
\* "Package"
strPackageLabel == <<80, 97, 99, 107, 97, 103, 101>>
\* " (" and ")"
strOpen == <<32, 40>>
strClose == <<41>>

HookKinds == {"render_synopsis", "render_doc", "render_decl", "render_code", "source_link"}

Node(k, v) == [k |-> k, v |-> v]

When(cond, nodes) == IF cond THEN nodes ELSE <<>>

RECURSIVE Cat(_)
Cat(seqs) == IF seqs = <<>> THEN <<>> ELSE Head(seqs) \o Cat(Tail(seqs))

\* index .Examples.Map key: the zero value (no entries) for a missing key
MapAt(m, key) == IF key \in DOMAIN m THEN m[key] ELSE <<>>

\* range over a map goes through the keys in sorted order
RECURSIVE SortedKeys(_)
SortedKeys(keys) ==
    IF keys = {} THEN <<>>
    ELSE LET first == CHOOSE a \in keys : \A b \in keys : ~StrLess(b, a)
         IN  <<first>> \o SortedKeys(keys \ {first})

\* {{define "example"}}
exampleTemplate(list) ==
    Cat([i \in 1..Len(list) |->
            <<Node("id", list[i].ID), Node("href", list[i].ID),
              Node("render_code", list[i].ID)>>])

\* the navigation list at the top
navTemplate(d, ex) ==
    When(d.Doc # <<>> \/ d.Consts # <<>> \/ d.Vars # <<>> \/ d.Funcs # <<>>
            \/ d.Types # <<>> \/ ex.List # <<>>,
         When(d.Doc # <<>> \/ MapAt(ex.Map, strEmpty) # <<>>, <<Node("href", strPkgOverview)>>)
         \o When(d.Consts # <<>> \/ d.Vars # <<>> \/ d.Funcs # <<>> \/ d.Types # <<>>,
                 <<Node("href", strPkgIndex)>>)
         \o When(ex.List # <<>>, <<Node("href", strPkgExamples)>>))

overviewTemplate(d, ex) ==
    When(d.Doc # <<>> \/ MapAt(ex.Map, strEmpty) # <<>>,
         <<Node("id", strPkgOverview), Node("href", strPkgOverview), Node("render_doc", d.Doc)>>
         \o exampleTemplate(MapAt(ex.Map, strEmpty)))

\* the list of links under <h2 id="pkg-index">
indexListTemplate(d) ==
    When(d.Consts # <<>>, <<Node("href", strPkgConstants)>>)
    \o When(d.Vars # <<>>, <<Node("href", strPkgVariables)>>)
    \o Cat([f \in 1..Len(d.Funcs) |->
              <<Node("href", d.Funcs[f].Name), Node("render_synopsis", d.Funcs[f].Name)>>])
    \o Cat([t \in 1..Len(d.Types) |->
              <<Node("href", d.Types[t].Name)>>
              \o Cat([f \in 1..Len(d.Types[t].Funcs) |->
                        <<Node("href", d.Types[t].Funcs[f].Name),
                          Node("render_synopsis", d.Types[t].Funcs[f].Name)>>])
              \o Cat([m \in 1..Len(d.Types[t].Methods) |->
                        <<Node("href", d.Types[t].Name \o strDot \o d.Types[t].Methods[m].Name),
                          Node("render_synopsis", d.Types[t].Methods[m].Name)>>])])
    \o LET markers == SortedKeys(DOMAIN d.Notes)
       IN  [n \in 1..Len(markers) |-> Node("href", strPkgNoteDash \o markers[n])]

\* <h3 id="pkg-examples"> and its list
examplesListTemplate(ex) ==
    When(ex.List # <<>>,
         <<Node("id", strPkgExamples), Node("href", strPkgExamples)>>
         \o Cat([i \in 1..Len(ex.List) |->
                   <<Node("href", ex.List[i].ID),
                     Node("label",
                          (IF ex.List[i].ParentID # <<>> THEN ex.List[i].ParentID
                                                         ELSE strPackageLabel)
                          \o When(ex.List[i].Suffix # <<>>,
                                  strOpen \o ex.List[i].Suffix \o strClose))>>]))

\* {{range .Consts}} or {{range .Vars}}: one render_decl each
valuesTemplate(values) == [i \in 1..Len(values) |-> Node("render_decl", values[i])]

\* <h3 id="{{.Name}}">func {{source_link .Name .Decl}} ... and the function's examples
funcTemplate(anchor, name, ex) ==
    <<Node("id", anchor), Node("source_link", name), Node("href", anchor),
      Node("render_decl", name)>>
    \o exampleTemplate(MapAt(ex.Map, anchor))

typeTemplate(ty, ex) ==
    <<Node("id", ty.Name), Node("source_link", ty.Name), Node("href", ty.Name),
      Node("render_decl", ty.Name)>>
    \o exampleTemplate(MapAt(ex.Map, ty.Name))
    \o valuesTemplate(ty.Consts)
    \o valuesTemplate(ty.Vars)
    \o Cat([f \in 1..Len(ty.Funcs) |-> funcTemplate(ty.Funcs[f].Name, ty.Funcs[f].Name, ex)])
    \o Cat([m \in 1..Len(ty.Methods) |->
              funcTemplate(ty.Name \o strDot \o ty.Methods[m].Name, ty.Methods[m].Name, ex)])

\* {{- if or .Consts .Vars .Funcs .Types -}} ... {{- end -}}
indexTemplate(d, ex) ==
    When(d.Consts # <<>> \/ d.Vars # <<>> \/ d.Funcs # <<>> \/ d.Types # <<>>,
         <<Node("id", strPkgIndex), Node("href", strPkgIndex)>>
         \o indexListTemplate(d)
         \o examplesListTemplate(ex)
         \o When(d.Consts # <<>>, <<Node("id", strPkgConstants), Node("href", strPkgConstants)>>)
         \o valuesTemplate(d.Consts)
         \o When(d.Vars # <<>>, <<Node("id", strPkgVariables), Node("href", strPkgVariables)>>)
         \o valuesTemplate(d.Vars)
         \o Cat([f \in 1..Len(d.Funcs) |-> funcTemplate(d.Funcs[f].Name, d.Funcs[f].Name, ex)])
         \o Cat([t \in 1..Len(d.Types) |-> typeTemplate(d.Types[t], ex)]))

\* {{- range $marker, $content := .Notes -}}
notesTemplate(d) ==
    LET markers == SortedKeys(DOMAIN d.Notes)
    IN  Cat([n \in 1..Len(markers) |->
               <<Node("id", strPkgNoteDash \o markers[n]),
                 Node("href", strPkgNoteDash \o markers[n])>>
               \o [b \in 1..Len(d.Notes[markers[n]]) |->
                     Node("render_doc", d.Notes[markers[n]][b])]])

\* The nodes the execution of htmlPackage goes through for the data
\* {RootURL, *doc.Package: d, Examples: ex}.
htmlPackage(d, ex) ==
    navTemplate(d, ex) \o overviewTemplate(d, ex) \o indexTemplate(d, ex) \o notesTemplate(d)

---------------------------------------------------------------------------
(* Render.                                                                 *)

DefaultLimit == 10 * (1000 * 1000)

\* if opt.Limit == 0 { opt.Limit = 10 * megabyte }
limitOrDefault(limit) == IF limit = 0 THEN DefaultLimit ELSE limit

\* p.Consts = nil; p.Types = nil; p.Vars = nil; p.Funcs = nil; p.Examples = nil
clearDecls(pkg) ==
    [pkg EXCEPT !.Consts = <<>>, !.Types = <<>>, !.Vars = <<>>, !.Funcs = <<>>,
                !.Examples = <<>>]

\* Faulty variant: the declarations are cleared in the caller's package.
commandCopy_InPlace(heap, ref, fresh) ==
    IF heap[ref].Name = strMain
    THEN [pkgs |-> [heap EXCEPT ![ref] = clearDecls(heap[ref])], p |-> ref]
    ELSE [pkgs |-> heap, p |-> ref]

\* if p.Name == "main" { p2 := *p; p = &p2; ...clear... }: the package
\* objects and the pointer p afterwards; fresh is the place of p2.
commandCopy(heap, ref, fresh) ==
    IF heap[ref].Name = strMain
    THEN [pkgs |-> (fresh :> clearDecls(heap[ref])) @@ heap, p |-> fresh]
    ELSE [pkgs |-> heap, p |-> ref]

\* The hooks the master template is built with: the nil Renderer's methods
\* and a source_link stub; 0 stands for them, c > 0 for the hooks of call c.
MasterFuncs ==
    [ternary |-> 0, render_synopsis |-> 0, render_doc |-> 0, render_decl |-> 0,
     render_code |-> 0, source_link |-> 0]

\* Faulty variant: no clone, the call works on htmlPackage itself.
cloneTemplate_Shared(ts, c) == [templates |-> ts, tmpl |-> 0]

\* template.Must(htmlPackage.Clone()): a new template object with the
\* bindings of the master
cloneTemplate(ts, c) == [templates |-> (c :> ts[0]) @@ ts, tmpl |-> c]

\* .Funcs(map[string]interface{}{"render_synopsis": r.Synopsis, ...,
\* "source_link": sourceLink}) on the template t
bindFuncs(ts, t, c) ==
    [ts EXCEPT ![t] = [@ EXCEPT !.render_synopsis = c, !.render_doc = c, !.render_decl = c,
                                !.render_code = c, !.source_link = c]]

\* opt.SourceLinkFunc(node) of the resolver r: resolver 0 has no link for
\* any node, resolver r > 0 answers "/r/" + name
SourceLinkFunc(r, name) == IF r = 0 THEN <<>> ELSE <<47, 48 + r, 47>> \o name

\* The closure sourceLink of a call whose options are o; an empty link
\* stands for the plain name.
sourceLink(o, name) == SourceLinkFunc(o.SourceLinkFunc, name)

\* What the execution of node n writes when the hooks bound are those of
\* call by (0 for a node that calls no hook) and that call's options are o.
Written(n, by, o) ==
    [k |-> n.k, v |-> n.v, by |-> by,
     link |-> IF n.k = "source_link" THEN sourceLink(o, n.v) ELSE <<>>]

\* limitBuffer.Write of the n bytes of out: appends to B (whose length is
\* Len) and counts them off Remain, and never fails
limitBufferWrite(b, out, n) ==
    [B |-> Append(b.B, out), Len |-> b.Len + n, Remain |-> b.Remain - n]

NilResult(e) == [nil |-> TRUE, bytes |-> <<>>, err |-> e]

\* Faulty variant: the execution's error is looked at first.
renderResult_ErrFirst(b, e) ==
    IF e # "nil" THEN NilResult("dochtml.Render: error")
    ELSE IF b.Remain < 0 THEN NilResult("ErrTooLarge")
    ELSE [nil |-> FALSE, bytes |-> b.B, err |-> "nil"]

\* Faulty variant: output of exactly Limit bytes is too large.
renderResult_OffByOne(b, e) ==
    IF b.Remain <= 0 THEN NilResult("ErrTooLarge")
    ELSE IF e # "nil" THEN NilResult("dochtml.Render: error")
    ELSE [nil |-> FALSE, bytes |-> b.B, err |-> "nil"]

\* if buf.Remain < 0 { return nil, ErrTooLarge } else if err != nil
\* { return nil, fmt.Errorf(...) }; return buf.B.Bytes(), nil
renderResult(b, e) ==
    IF b.Remain < 0 THEN NilResult("ErrTooLarge")
    ELSE IF e # "nil" THEN NilResult("dochtml.Render: error")
    ELSE [nil |-> FALSE, bytes |-> b.B, err |-> "nil"]

---------------------------------------------------------------------------
(* Inputs.                                                                 *)

MaxFuncs == 2
MaxTypes == 1

Ex(suffix) == [Suffix |-> suffix]
Fn(name, es) == [Name |-> name, Examples |-> es]
Ty(name, es, funcs, methods) ==
    [Name |-> name, Consts |-> <<>>, Vars |-> <<>>, Examples |-> es, Funcs |-> funcs,
     Methods |-> methods]

SeqsUpTo(S, n) == UNION {[1..k -> S] : k \in 0..n}

ExampleLists == {<<>>, <<Ex(strEmpty)>>, <<Ex(sufA)>>, <<Ex(strEmpty), Ex(sufA)>>}

FuncDecls ==
    { Fn(nameZ, <<Ex(strEmpty), Ex(sufA)>>),
      Fn(nameN, <<Ex(sufA)>>),
      Fn(nameNa, <<Ex(strEmpty)>>),
      Fn(nameNew, <<Ex(strEmpty)>>),
      Fn(nameT, <<>>),
      Fn(strPackage, <<Ex(sufA)>>),
      Fn(nameNDashA, <<Ex(strEmpty)>>) }

TypeDecls ==
    { Ty(nameT, <<Ex(strEmpty)>>, <<Fn(nameZ, <<Ex(strEmpty)>>)>>, <<Fn(nameM, <<Ex(strEmpty)>>)>>),
      Ty(nameT, <<Ex(sufA)>>, <<>>, <<Fn(nameM, <<Ex(strEmpty), Ex(sufA)>>)>>),
      Ty(nameN, <<Ex(strEmpty)>>, <<Fn(nameNew, <<Ex(sufA)>>)>>, <<>>),
      Ty(nameRing, <<>>, <<>>, <<Fn(nameDo, <<Ex(strEmpty)>>)>>),
      Ty(nameT, <<>>, <<Fn(nameZ, <<Ex(sufA)>>)>>, <<Fn(nameM, <<>>), Fn(nameDo, <<Ex(sufA)>>)>>) }

Pkg(name, doc, consts, vs, funcs, types, es, notes) ==
    [Name |-> name, Doc |-> doc, Consts |-> consts, Vars |-> vs, Funcs |-> funcs,
     Types |-> types, Examples |-> es, Notes |-> notes]

ExamplePackages ==
    { Pkg(nameLib, strEmpty, <<>>, <<>>, fs, ts, es, EmptyMap) :
        fs \in SeqsUpTo(FuncDecls, MaxFuncs),
        ts \in SeqsUpTo(TypeDecls, MaxTypes),
        es \in ExampleLists }

\* Declarations and notes of the packages rendered.
\* "c", "v": a constant group and a variable group; "d": overview prose;
\* "BUG": a note marker; "b": a note body
declC == <<99>>
declV == <<118>>
docD == <<100>>
markerBUG == <<66, 85, 71>>
noteB == <<98>>

RenderPackages ==
    { Pkg(name, doc, cv[1], cv[2], fs, ts, es, notes) :
        name \in {strMain, nameLib},
        doc \in {strEmpty, docD},
        cv \in {<<<<>>, <<>>>>, <<<<declC>>, <<declV>>>>},
        fs \in {<<>>, <<Fn(nameNew, <<Ex(strEmpty)>>)>>},
        ts \in {<<>>, <<Ty(nameRing, <<>>, <<>>, <<Fn(nameDo, <<Ex(strEmpty)>>)>>)>>},
        es \in {<<>>, <<Ex(strEmpty)>>},
        notes \in {EmptyMap, (markerBUG :> <<noteB>>)} }

ConcPackages ==
    { Pkg(nameLib, strEmpty, <<>>, <<>>, <<Fn(nameNew, <<>>)>>, <<>>, <<>>, EmptyMap),
      Pkg(strMain, docD, <<>>, <<>>, <<Fn(nameNew, <<>>)>>, <<>>, <<>>, EmptyMap) }

\* The byte counts of single writes: short ones, and one that takes all
\* but two bytes of the default limit.
BigWrite == DefaultLimit - 2
WriteSizes == {1, 2, BigWrite}

\* A big write is taken only among the first MaxBigPos nodes of a walk.
MaxBigPos == 1

Limits == {0, 5, -1}
Resolvers == {0, 1, 2}

Calls == {1, 2}

IDStrings == {strEmpty, sufA, sufB, nameN, nameNa, nameNDashA, strPackage, nameT \o strDot \o nameM,
              strDash, strExampleDash}

---------------------------------------------------------------------------
(* Harness for exampleID: every pair of IDStrings is passed once.          *)

NoPackage == Pkg(nameLib, strEmpty, <<>>, <<>>, <<>>, <<>>, <<>>, EmptyMap)
NoExamples == [List |-> <<>>, Map |-> EmptyMap]

\* No call of Render is under way.
RenderIdle ==
    /\ pkgs = [c \in Calls |-> NoPackage]
    /\ given = [c \in Calls |-> [pkg |-> NoPackage, opt |-> [SourceLinkFunc |-> 0, Limit |-> 0]]]
    /\ templates = (0 :> MasterFuncs)
    /\ opt = [c \in Calls |-> [SourceLinkFunc |-> 0, Limit |-> 0]]
    /\ p = [c \in Calls |-> c]
    /\ tmpl = [c \in Calls |-> -1]
    /\ examples = [c \in Calls |-> NoExamples]
    /\ walk = [c \in Calls |-> <<>>]
    /\ pos = [c \in Calls |-> 1]
    /\ buf = [c \in Calls |-> [B |-> <<>>, Len |-> 0, Remain |-> 0]]
    /\ err = [c \in Calls |-> "nil"]
    /\ ret = [c \in Calls |-> NilResult("nil")]
    /\ pc = [c \in Calls |-> "idle"]

\* Neither harness is in use.
HarnessIdle ==
    /\ idArgs = <<strEmpty, strEmpty>>
    /\ idOut = <<>>
    /\ exPkg = NoPackage
    /\ exOut = NoExamples
    /\ exPc = "idle"

InitID ==
    /\ idArgs \in IDStrings \X IDStrings
    /\ idOut = <<>>
    /\ exPkg = NoPackage
    /\ exOut = NoExamples
    /\ exPc = "idle"
    /\ RenderIdle

CallExampleID ==
    /\ idOut = <<>>
    /\ idOut' = <<exampleID(idArgs[1], idArgs[2])>>
    /\ UNCHANGED <<idArgs, exPkg, exOut, exPc, renderVars>>

NextID == CallExampleID

SpecID == InitID /\ [][NextID]_vars

(* Harness for collectExamples.                                            *)

InitExamples ==
    /\ idArgs = <<strEmpty, strEmpty>>
    /\ idOut = <<>>
    /\ exPkg \in ExamplePackages
    /\ exOut = NoExamples
    /\ exPc = "call"
    /\ RenderIdle

CallCollectExamples ==
    /\ exPc = "call"
    /\ exOut' = collectExamples(exPkg)
    /\ exPc' = "returned"
    /\ UNCHANGED <<idArgs, idOut, exPkg, renderVars>>

NextExamples == CallCollectExamples

SpecExamples == InitExamples /\ [][NextExamples]_vars

---------------------------------------------------------------------------
(* Calls of Render.  Call c is given the package object pkgs[c]; a call    *)
(* goes begin -> clone -> funcs -> execute -> walk -> check -> done.       *)

\* Lines 49-87: the default limit, the copy for a command, the buffer.
RenderBegin(c) ==
    /\ pc[c] = "begin"
    /\ LET cp == commandCopy(pkgs, c, c + Cardinality(Calls))
       IN  /\ pkgs' = cp.pkgs
           /\ p' = [p EXCEPT ![c] = cp.p]
    /\ opt' = [opt EXCEPT ![c].Limit = limitOrDefault(@)]
    /\ buf' = [buf EXCEPT ![c] = [B |-> <<>>, Len |-> 0, Remain |-> limitOrDefault(opt[c].Limit)]]
    /\ pc' = [pc EXCEPT ![c] = "clone"]
    /\ UNCHANGED <<harnessVars, given, templates, tmpl, examples, walk, pos, err, ret>>

\* template.Must(htmlPackage.Clone())
CloneTemplate(c) ==
    /\ pc[c] = "clone"
    /\ LET cl == cloneTemplate(templates, c)
       IN  /\ templates' = cl.templates
           /\ tmpl' = [tmpl EXCEPT ![c] = cl.tmpl]
    /\ pc' = [pc EXCEPT ![c] = "funcs"]
    /\ UNCHANGED <<harnessVars, pkgs, given, opt, p, examples, walk, pos, buf, err, ret>>

\* .Funcs(...)
BindFuncs(c) ==
    /\ pc[c] = "funcs"
    /\ templates' = bindFuncs(templates, tmpl[c], c)
    /\ pc' = [pc EXCEPT ![c] = "execute"]
    /\ UNCHANGED <<harnessVars, pkgs, given, opt, p, tmpl, examples, walk, pos, buf, err, ret>>

\* The data of Execute is built (collectExamples(p)) and the execution starts.
ExecuteStart(c) ==
    /\ pc[c] = "execute"
    /\ LET ex == collectExamples(pkgs[p[c]])
           w  == htmlPackage(pkgs[p[c]], ex)
       IN  /\ examples' = [examples EXCEPT ![c] = ex]
           /\ walk' = [walk EXCEPT ![c] = w]
           /\ pc' = [pc EXCEPT ![c] = IF w = <<>> THEN "check" ELSE "walk"]
    /\ pos' = [pos EXCEPT ![c] = 1]
    /\ UNCHANGED <<harnessVars, pkgs, given, templates, opt, p, tmpl, buf, err, ret>>

\* The hooks a node is evaluated with: those bound in the call's template.
BoundTo(c, n) == IF n.k \in HookKinds THEN templates[tmpl[c]][n.k] ELSE 0

\* One node is evaluated and written; the write takes size bytes.
WriteNode(c) ==
    /\ pc[c] = "walk"
    /\ LET n  == walk[c][pos[c]]
           by == BoundTo(c, n)
       IN  /\ n.k \in HookKinds => by # 0
           /\ \E size \in WriteSizes :
                 /\ size = BigWrite => pos[c] <= MaxBigPos
                 /\ buf' = [buf EXCEPT ![c] =
                              limitBufferWrite(@, Written(n, by, opt[IF by = 0 THEN c ELSE by]),
                                               size)]
    /\ pos' = [pos EXCEPT ![c] = @ + 1]
    /\ pc' = [pc EXCEPT ![c] = IF pos[c] + 1 > Len(walk[c]) THEN "check" ELSE "walk"]
    /\ UNCHANGED <<harnessVars, pkgs, given, templates, opt, p, tmpl, examples, walk, err, ret>>

\* A hook fails (the master's stubs always do), and Execute returns the error.
HookFails(c) ==
    /\ pc[c] = "walk"
    /\ walk[c][pos[c]].k \in HookKinds
    /\ err' = [err EXCEPT ![c] = "template: error calling " \o walk[c][pos[c]].k]
    /\ pc' = [pc EXCEPT ![c] = "check"]
    /\ UNCHANGED <<harnessVars, pkgs, given, templates, opt, p, tmpl, examples, walk, pos, buf, ret>>

\* Lines 103-108.
RenderReturn(c) ==
    /\ pc[c] = "check"
    /\ ret' = [ret EXCEPT ![c] = renderResult(buf[c], err[c])]
    /\ pc' = [pc EXCEPT ![c] = "done"]
    /\ UNCHANGED <<harnessVars, pkgs, given, templates, opt, p, tmpl, examples, walk, pos, buf, err>>

Step(c) ==
    \/ RenderBegin(c)
    \/ CloneTemplate(c)
    \/ BindFuncs(c)
    \/ ExecuteStart(c)
    \/ WriteNode(c)
    \/ HookFails(c)
    \/ RenderReturn(c)

\* The state in which the calls of the set active are about to begin.
RenderCalled(active, input) ==
    /\ HarnessIdle
    /\ pkgs = [c \in Calls |-> IF c \in active THEN input[c].pkg ELSE NoPackage]
    /\ templates = (0 :> MasterFuncs)
    /\ opt = [c \in Calls |-> IF c \in active THEN input[c].opt
                              ELSE [SourceLinkFunc |-> 0, Limit |-> 0]]
    /\ given = [c \in Calls |-> [pkg |-> pkgs[c], opt |-> opt[c]]]
    /\ p = [c \in Calls |-> c]
    /\ tmpl = [c \in Calls |-> -1]
    /\ examples = [c \in Calls |-> NoExamples]
    /\ walk = [c \in Calls |-> <<>>]
    /\ pos = [c \in Calls |-> 1]
    /\ buf = [c \in Calls |-> [B |-> <<>>, Len |-> 0, Remain |-> 0]]
    /\ err = [c \in Calls |-> "nil"]
    /\ ret = [c \in Calls |-> NilResult("nil")]
    /\ pc = [c \in Calls |-> IF c \in active THEN "begin" ELSE "idle"]

\* One call of Render, on any of RenderPackages with any of Limits.
InitRender ==
    \E pkg \in RenderPackages, limit \in Limits :
        RenderCalled({1}, [c \in Calls |->
                             [pkg |-> pkg, opt |-> [SourceLinkFunc |-> 1, Limit |-> limit]]])

NextRender == Step(1)

SpecRender == InitRender /\ [][NextRender]_vars

\* Two concurrent calls of Render with distinct resolvers.
InitConc ==
    \E pkg1, pkg2 \in ConcPackages, r1, r2 \in Resolvers :
        /\ r1 # r2
        /\ RenderCalled(Calls, [c \in Calls |->
                                  [pkg |-> IF c = 1 THEN pkg1 ELSE pkg2,
                                   opt |-> [SourceLinkFunc |-> IF c = 1 THEN r1 ELSE r2,
                                            Limit |-> 0]]])

NextConc == \E c \in Calls : Step(c)

SpecConc == InitConc /\ [][NextConc]_vars

---------------------------------------------------------------------------
(* Properties of exampleID and collectExamples.                            *)

\* C5: for every pair (parentID, suffix), exampleID returns "example-package"
\* when both are empty, "example-package-" + suffix when only parentID is
\* empty, "example-" + parentID when only suffix is empty and
\* "example-" + parentID + "-" + suffix when neither is; it never panics.
C5_ExampleIDTable ==
    idOut # <<>> =>
        LET id == idArgs[1]
            suffix == idArgs[2]
            got == idOut[1]
        IN  /\ got # Panic
            /\ (Len(id) = 0 /\ Len(suffix) = 0) => got = strExamplePackage
            /\ (Len(id) = 0 /\ Len(suffix) > 0) => got = strExamplePackageDash \o suffix
            /\ (Len(id) > 0 /\ Len(suffix) = 0) => got = strExampleDash \o id
            /\ (Len(id) > 0 /\ Len(suffix) > 0) => got = strExampleDash \o id \o strDash \o suffix

C5_Witness ==
    /\ idOut = <<strExamplePackage>>
    /\ idArgs = <<strEmpty, strEmpty>>

\* The order in which collectExamples meets the examples is the
\* lexicographic order of their places in the package.
DiscoveredBefore(e1, e2) == StrLess(e1.Example, e2.Example)

\* C6: the List returned by collectExamples is in non-decreasing order of
\* ParentID, and entries with equal ParentID keep their discovery order.
C6_ListSortedStable ==
    exPc = "returned" =>
        \A i, j \in 1..Len(exOut.List) :
            i < j =>
                /\ ~StrLess(exOut.List[j].ParentID, exOut.List[i].ParentID)
                /\ exOut.List[i].ParentID = exOut.List[j].ParentID
                     => DiscoveredBefore(exOut.List[i], exOut.List[j])

\* Two entries with one ParentID, discovered with an entry of a smaller
\* ParentID between them, which the sort has moved in front of both.
C6_Witness ==
    /\ exPc = "returned"
    /\ \E k, i, j \in 1..Len(exOut.List) :
          /\ k < i /\ i < j
          /\ exOut.List[i].ParentID = exOut.List[j].ParentID
          /\ StrLess(exOut.List[k].ParentID, exOut.List[i].ParentID)
          /\ DiscoveredBefore(exOut.List[i], exOut.List[k])
          /\ DiscoveredBefore(exOut.List[k], exOut.List[j])

NoSharedPair(list) ==
    \A i, j \in 1..Len(list) :
        i # j => <<list[i].ParentID, list[i].Suffix>> # <<list[j].ParentID, list[j].Suffix>>

DistinctIDs(list) ==
    \A i, j \in 1..Len(list) : i # j => list[i].ID # list[j].ID

HasDash(s) == \E k \in 1..Len(s) : s[k] = 45

\* What every name of a parsed Go package satisfies: an identifier, or
\* Type.Method, holds no "-", and "package" is a keyword.
PlainParentIDs(list) ==
    \A i \in 1..Len(list) : ~HasDash(list[i].ParentID) /\ list[i].ParentID # strPackage

ExamplePlaces(pkg) ==
    {<<1, i>> : i \in 1..Len(pkg.Examples)}
    \cup UNION {{<<2, f, i>> : i \in 1..Len(pkg.Funcs[f].Examples)} : f \in 1..Len(pkg.Funcs)}
    \cup UNION {{<<3, t, 1, 0, i>> : i \in 1..Len(pkg.Types[t].Examples)} : t \in 1..Len(pkg.Types)}
    \cup UNION {UNION {{<<3, t, 2, f, i>> : i \in 1..Len(pkg.Types[t].Funcs[f].Examples)} :
                         f \in 1..Len(pkg.Types[t].Funcs)} : t \in 1..Len(pkg.Types)}
    \cup UNION {UNION {{<<3, t, 3, m, i>> : i \in 1..Len(pkg.Types[t].Methods[m].Examples)} :
                         m \in 1..Len(pkg.Types[t].Methods)} : t \in 1..Len(pkg.Types)}

ExpectedParentID(pkg, pl) ==
    CASE pl[1] = 1 -> strEmpty
      [] pl[1] = 2 -> pkg.Funcs[pl[2]].Name
      [] pl[1] = 3 /\ pl[3] = 1 -> pkg.Types[pl[2]].Name
      [] pl[1] = 3 /\ pl[3] = 2 -> pkg.Types[pl[2]].Funcs[pl[4]].Name
      [] pl[1] = 3 /\ pl[3] = 3 ->
            pkg.Types[pl[2]].Name \o strDot \o pkg.Types[pl[2]].Methods[pl[4]].Name

\* C9: List holds every example of the model exactly once, each with the
\* ParentID of its context: "" for a package example, the function's name
\* for a function's (also under a type), the type's name for a type's,
\* TypeName.MethodName for a method's.
C9_EveryExampleOnce ==
    exPc = "returned" =>
        /\ {exOut.List[i].Example : i \in 1..Len(exOut.List)} = ExamplePlaces(exPkg)
        /\ Len(exOut.List) = Cardinality(ExamplePlaces(exPkg))
        /\ \A i \in 1..Len(exOut.List) :
              exOut.List[i].ParentID = ExpectedParentID(exPkg, exOut.List[i].Example)

\* A package with an example in each of the five contexts.
C9_Witness ==
    /\ exPc = "returned"
    /\ \A c \in {<<1, 1>>, <<2, 1, 1>>, <<3, 1, 1, 0, 1>>, <<3, 1, 2, 1, 1>>, <<3, 1, 3, 1, 1>>} :
          \E i \in 1..Len(exOut.List) : exOut.List[i].Example = c

WithParentID(list, id) ==
    LET has(e) == e.ParentID = id IN SelectSeq(list, has)

\* C10: Map[parentID] is the sub-sequence of List with that ParentID, in
\* List's order; every entry of List is in Map[entry.ParentID]; no key of
\* Map has an empty sequence.
C10_ListMapAgree ==
    exPc = "returned" =>
        /\ \A id \in DOMAIN exOut.Map :
              /\ exOut.Map[id] = WithParentID(exOut.List, id)
              /\ exOut.Map[id] # <<>>
        /\ \A i \in 1..Len(exOut.List) :
              /\ exOut.List[i].ParentID \in DOMAIN exOut.Map
              /\ \E k \in 1..Len(exOut.Map[exOut.List[i].ParentID]) :
                    exOut.Map[exOut.List[i].ParentID][k] = exOut.List[i]

\* A key with two entries that the sort had to move.
C10_Witness ==
    /\ exPc = "returned"
    /\ \E id \in DOMAIN exOut.Map :
          /\ Len(exOut.Map[id]) >= 2
          /\ \E k \in 1..Len(exOut.List) :
                /\ StrLess(exOut.List[k].ParentID, id)
                /\ DiscoveredBefore(exOut.Map[id][1], exOut.List[k])

---------------------------------------------------------------------------
(* Properties of Render.                                                   *)

\* The nodes of kind k with value v among the nodes of a sequence.
HasNode(nodes, k, v) == \E i \in 1..Len(nodes) : nodes[i].k = k /\ nodes[i].v = v

\* C1: once the walk is over, Render fails with ErrTooLarge and no bytes
\* if Remain < 0, also when the execution failed; else with a rendering
\* error and no bytes if the execution failed; else it returns all the
\* bytes of the complete walk and no error.
C1_OutcomePrecedence ==
    pc[1] = "done" =>
        /\ buf[1].Remain < 0 =>
              ret[1] = [nil |-> TRUE, bytes |-> <<>>, err |-> "ErrTooLarge"]
        /\ (buf[1].Remain >= 0 /\ err[1] # "nil") =>
              ret[1] = [nil |-> TRUE, bytes |-> <<>>, err |-> "dochtml.Render: error"]
        /\ (buf[1].Remain >= 0 /\ err[1] = "nil") =>
              /\ ret[1] = [nil |-> FALSE, bytes |-> buf[1].B, err |-> "nil"]
              /\ Len(ret[1].bytes) = Len(walk[1])
              /\ \A i \in 1..Len(walk[1]) :
                    ret[1].bytes[i].k = walk[1][i].k /\ ret[1].bytes[i].v = walk[1][i].v
        /\ ret[1].err # "nil" => ret[1].nil

\* The limit is exceeded and the execution failed as well.
C1_Witness ==
    /\ pc[1] = "done"
    /\ buf[1].Remain < 0
    /\ err[1] # "nil"
    /\ ret[1].err = "ErrTooLarge"

\* The ceiling of call c: the Limit passed, 10,000,000 when that is 0.
Ceiling(c) == IF given[c].opt.Limit = 0 THEN 10000000 ELSE given[c].opt.Limit

\* C2: with ceiling L, a call that wrote exactly L bytes (or fewer) does
\* not fail with ErrTooLarge, one that wrote L + 1 bytes or more does; a
\* write is never rejected: every node the walk reached is in the buffer.
C2_CeilingBoundary ==
    /\ pc[1] = "done" =>
          /\ buf[1].Len <= Ceiling(1) => ret[1].err # "ErrTooLarge"
          /\ buf[1].Len >= Ceiling(1) + 1 => ret[1].err = "ErrTooLarge"
    /\ pc[1] \in {"walk", "check", "done"} =>
          /\ Len(buf[1].B) = pos[1] - 1
          /\ err[1] = "nil" /\ pc[1] # "walk" => Len(buf[1].B) = Len(walk[1])

\* Exactly the default limit was written, and the call succeeded.
C2_Witness ==
    /\ pc[1] = "done"
    /\ given[1].opt.Limit = 0
    /\ buf[1].Len = 10000000
    /\ ret[1].err = "nil"
    /\ ~ret[1].nil

DeclNames(pkg) ==
    {pkg.Funcs[f].Name : f \in 1..Len(pkg.Funcs)}
    \cup {pkg.Types[t].Name : t \in 1..Len(pkg.Types)}
    \cup UNION {{pkg.Types[t].Funcs[f].Name : f \in 1..Len(pkg.Types[t].Funcs)} :
                  t \in 1..Len(pkg.Types)}
    \cup UNION {{pkg.Types[t].Name \o strDot \o pkg.Types[t].Methods[m].Name :
                    m \in 1..Len(pkg.Types[t].Methods)} : t \in 1..Len(pkg.Types)}

\* C3: for a package named "main" the walk sees Consts, Vars, Funcs, Types
\* and Examples empty (so no index section and no anchor of a function or
\* a type is written) and Doc and Notes as given; the caller's package
\* keeps the value it had, during the call and after it.
C3_CommandSuppression ==
    /\ pkgs[1] = given[1].pkg
    /\ (given[1].pkg.Name = strMain /\ pc[1] \in {"walk", "check", "done"}) =>
          LET seen == pkgs[p[1]]
          IN  /\ seen.Consts = <<>> /\ seen.Vars = <<>> /\ seen.Funcs = <<>>
              /\ seen.Types = <<>> /\ seen.Examples = <<>>
              /\ seen.Doc = given[1].pkg.Doc /\ seen.Notes = given[1].pkg.Notes
              /\ examples[1].List = <<>>
              /\ ~HasNode(buf[1].B, "id", strPkgIndex)
              /\ \A name \in DeclNames(given[1].pkg) : ~HasNode(buf[1].B, "id", name)

\* A command with all five lists non-empty has been rendered.
C3_Witness ==
    /\ pc[1] = "done"
    /\ ~ret[1].nil
    /\ given[1].pkg.Name = strMain
    /\ given[1].pkg.Consts # <<>> /\ given[1].pkg.Vars # <<>> /\ given[1].pkg.Funcs # <<>>
    /\ given[1].pkg.Types # <<>> /\ given[1].pkg.Examples # <<>>
    /\ HasNode(ret[1].bytes, "id", strPkgOverview)

\* C4: every hook evaluated in a call is the call's own, every source
\* link written is the one the call's own resolver gives, and htmlPackage
\* keeps the hooks it was built with.
C4_HooksCallScoped ==
    /\ templates[0] = MasterFuncs
    /\ \A c \in Calls : \A i \in 1..Len(buf[c].B) :
          buf[c].B[i].k \in HookKinds =>
              /\ buf[c].B[i].by = c
              /\ buf[c].B[i].k = "source_link" =>
                    buf[c].B[i].link = SourceLinkFunc(given[c].opt.SourceLinkFunc, buf[c].B[i].v)

\* Both calls are in the middle of their walks and each has written a
\* source link, the two links differing.
C4_Witness ==
    /\ pc[1] = "walk" /\ pc[2] = "walk"
    /\ \E i \in 1..Len(buf[1].B), j \in 1..Len(buf[2].B) :
          /\ buf[1].B[i].k = "source_link" /\ buf[2].B[j].k = "source_link"
          /\ buf[1].B[i].v = buf[2].B[j].v
          /\ buf[1].B[i].link # buf[2].B[j].link

\* C8: the document of a successful call holds the examples list (the
\* element with the anchor pkg-examples, then one entry per element of
\* Examples.List) if and only if Examples.List is not empty, and holds it
\* whenever it holds the link to #pkg-examples.
C8_ExamplesSection ==
    (pc[1] = "done" /\ ~ret[1].nil) =>
        /\ HasNode(ret[1].bytes, "id", strPkgExamples) <=> examples[1].List # <<>>
        /\ HasNode(ret[1].bytes, "href", strPkgExamples)
              => HasNode(ret[1].bytes, "id", strPkgExamples)

===========================================================================
